---- MODULE Spec2Model ----
(***************************************************************************)
(* A model of azdev/operations/style.py: the `azdev style` command.        *)
(*                                                                         *)
(* Python values are modelled structurally.  A str is a sequence of atoms  *)
(* (an atom is an indivisible piece of text: "/", "-", " ", a name, ...),  *)
(* a bytes object is a sequence of byte values, and a value that may be    *)
(* None is a tagged record, so that None, str and an exception object are  *)
(* always distinguishable.                                                 *)
(***************************************************************************)
EXTENDS Integers, Sequences, FiniteSets, TLC

VARIABLES
    args,    \* the arguments check_style was called with
    env,     \* what the collaborators answer: Azure CLI installed, the
             \* settings store, the git-diff filter's answer, each
             \* subprocess's outcome (recorded when first asked)
    frame,   \* check_style's locals, its position, and what it has done
             \* (lines displayed, lines logged, subprocesses invoked)
    cmb,     \* one call of _combine_command_result
    cfg      \* one call of _config_file_path

vars == <<args, env, frame, cmb, cfg>>

-----------------------------------------------------------------------------
(* Bounds of the model *)

MaxExitCode == 2    \* a failing subprocess returns 1..MaxExitCode
NumMod == 1         \* command modules in the CLI repository
NumExt == 1         \* extensions in the extension repository

(* multiprocessing.cpu_count() *)
CpuCount == 2

-----------------------------------------------------------------------------
(* Python values *)

None == [tag |-> "None"]
PyStr(s) == [tag |-> "str", val |-> s]
PyList(l) == [tag |-> "list", val |-> l]

\* bool(v) for the values that occur here: None is false, a str or list is
\* true when non-empty, any other object (a CommandResultItem, an exception)
\* is true.
Truthy(v) ==
    /\ v.tag # "None"
    /\ (v.tag \in {"str", "list"} => v.val # <<>>)

Last(s) == s[Len(s)]

\* sep.join(parts)
RECURSIVE StrJoin(_, _)
StrJoin(sep, parts) ==
    IF parts = <<>> THEN <<>>
    ELSE IF Len(parts) = 1 THEN parts[1]
    ELSE parts[1] \o sep \o StrJoin(sep, Tail(parts))

Whitespace == {" ", "\t", "\n"}

\* s.split(): the maximal runs of non-whitespace atoms, in order
RECURSIVE SplitWs(_, _, _)
SplitWs(s, cur, acc) ==
    IF s = <<>> THEN (IF cur = <<>> THEN acc ELSE Append(acc, cur))
    ELSE IF Head(s) \in Whitespace
         THEN SplitWs(Tail(s), <<>>, IF cur = <<>> THEN acc ELSE Append(acc, cur))
         ELSE SplitWs(Tail(s), Append(cur, Head(s)), acc)

StrSplit(s) == SplitWs(s, <<>>, <<>>)

\* s.split(sep): the pieces between separators, empty pieces kept
RECURSIVE SplitSep(_, _, _, _)
SplitSep(s, sep, cur, acc) ==
    IF s = <<>> THEN Append(acc, cur)
    ELSE IF Head(s) = sep
         THEN SplitSep(Tail(s), sep, <<>>, Append(acc, cur))
         ELSE SplitSep(Tail(s), sep, Append(cur, Head(s)), acc)

StrSplitOn(s, sep) == SplitSep(s, sep, <<>>, <<>>)

\* needle in s
StrContains(needle, s) ==
    \E i \in 0..(Len(s) - Len(needle)) :
        SubSeq(s, i + 1, i + Len(needle)) = needle

\* os.path.join(a, b) on a POSIX system
OsPathJoin(a, b) ==
    IF b # <<>> /\ Head(b) = "/" THEN b
    ELSE IF a = <<>> \/ Last(a) = "/" THEN a \o b
    ELSE a \o <<"/">> \o b

\* os.path.split(p)[1]: what follows the last "/"
RECURSIVE OsPathTail(_)
OsPathTail(p) ==
    IF p = <<>> \/ Last(p) = "/" THEN <<>>
    ELSE Append(OsPathTail(SubSeq(p, 1, Len(p) - 1)), Last(p))

\* bytes.decode('utf-8') on the ASCII letters the model's outputs use
Chr(b) ==
    CASE b = 101 -> "e"
      [] b = 102 -> "f"
      [] b = 103 -> "g"
      [] OTHER -> "?"

Decode(bs) == [i \in 1..Len(bs) |-> Chr(bs[i])]

-----------------------------------------------------------------------------
(* knack.util.CommandResultItem and the errors it carries *)

CommandResultItem(result, exit_code, error) ==
    [tag |-> "CommandResultItem", result |-> result,
     exit_code |-> exit_code, error |-> error]

\* An exception object has a returncode, the command, the captured output
\* (bytes) and, when the attribute exists, a message.
NoAttr == [tag |-> "NoAttr"]

CalledProcessError(returncode, cmd, output, message) ==
    [tag |-> "CalledProcessError", returncode |-> returncode, cmd |-> cmd,
     output |-> output, message |-> message]

\* str(error)
StrOfError(e) ==
    <<"Command '">> \o e.cmd \o
    <<"' returned non-zero exit status ", ToString(e.returncode), ".">>

-----------------------------------------------------------------------------
(* _combine_command_result *)

ApplyError(final, item) ==
    IF ~Truthy(item.error) THEN final
    ELSE IF Truthy(final.error)
         THEN IF item.error.message.tag # "NoAttr"
              THEN [final EXCEPT !.error.message =
                        PyStr(@.val \o item.error.message.val)]
              ELSE [final EXCEPT !.error.message =
                        PyStr(@.val \o StrOfError(item.error))]
         ELSE [final EXCEPT !.error =
                   [item.error EXCEPT !.message = PyStr(<<>>)]]

ApplyResultText(final, item) ==
    IF ~Truthy(item.result) THEN final
    ELSE IF Truthy(final.result)
         THEN [final EXCEPT !.result = PyStr(@.val \o item.result.val)]
         ELSE [final EXCEPT !.result = item.result]

\* a variant of ApplyExitCode that assigns the exit code instead of adding it
ApplyExitCodeAssign(final, item) ==
    [final EXCEPT !.exit_code = item.exit_code]

ApplyExitCode(final, item) ==
    [final EXCEPT !.exit_code = @ + item.exit_code]

ApplyResult(final, item) ==
    IF ~Truthy(item) THEN final
    ELSE ApplyResultText(ApplyError(ApplyExitCode(final, item), item), item)

CombineCommandResult(cli_result, ext_result) ==
    ApplyResult(ApplyResult(CommandResultItem(None, 0, None), cli_result),
                ext_result)

-----------------------------------------------------------------------------
(* _config_file_path *)

ConfigFileMapping(style_type) ==
    CASE style_type = "pylint" -> <<"pylintrc">>
      [] style_type = "flake8" -> <<".flake8">>

DefaultConfigFileMapping(group, style_type) ==
    CASE group = "cli" /\ style_type = "pylint" -> <<"cli_pylintrc">>
      [] group = "cli" /\ style_type = "flake8" -> <<"cli.flake8">>
      [] group = "ext" /\ style_type = "pylint" -> <<"ext_pylintrc">>
      [] group = "ext" /\ style_type = "flake8" -> <<"ext.flake8">>

\* next(filter(lambda x: "azure-cli-extension" in x, entries)), or [] when
\* the iterator is exhausted
RECURSIVE FirstExtRepoPath(_)
FirstExtRepoPath(entries) ==
    IF entries = <<>> THEN PyList(<<>>)
    ELSE IF StrContains(<<"azure-cli-extension">>, Head(entries))
         THEN PyStr(Head(entries))
         ELSE FirstExtRepoPath(Tail(entries))

\* get_azdev_config_dir()
AzdevConfigDir == <<"~", "/", ".azdev">>

DefaultConfigPath(group, style_type) ==
    OsPathJoin(OsPathJoin(AzdevConfigDir, <<"config_files">>),
               DefaultConfigFileMapping(group, style_type))

CliConfigPath(cli_repo_path, style_type) ==
    IF Truthy(PyStr(cli_repo_path))
    THEN OsPathJoin(cli_repo_path, ConfigFileMapping(style_type))
    ELSE DefaultConfigPath("cli", style_type)

\* a variant of ExtConfigPath that falls back to the modules' default file
ExtConfigPathCliDefault(ext_repo_path, style_type) ==
    IF Truthy(ext_repo_path)
    THEN OsPathJoin(ext_repo_path.val, ConfigFileMapping(style_type))
    ELSE DefaultConfigPath("cli", style_type)

ExtConfigPath(ext_repo_path, style_type) ==
    IF Truthy(ext_repo_path)
    THEN OsPathJoin(ext_repo_path.val, ConfigFileMapping(style_type))
    ELSE DefaultConfigPath("ext", style_type)

\* config is the settings store: cli.repo_path and ext.repo_paths
ConfigFilePath(style_type, config) ==
    LET cli_repo_path == config.cli_repo_path
        ext_repo_path == FirstExtRepoPath(StrSplit(config.ext_repo_paths))
    IN  IF style_type \notin {"pylint", "flake8"}
        THEN [tag |-> "ValueError"]
        ELSE [tag |-> "tuple",
              cli |-> CliConfigPath(cli_repo_path, style_type),
              ext |-> ExtConfigPath(ext_repo_path, style_type)]

-----------------------------------------------------------------------------
(* The repositories get_path_table discovers.  A partition of the path     *)
(* table is a dict from a module's name to its path; a dict's keys are     *)
(* listed in the order of discovery.                                       *)

NspkgNames == {"azure-cli-nspkg", "azure-cli-command_modules-nspkg"}

CoreOrder ==
    <<"azure-cli-nspkg", "azure-cli-core", "azure-cli-command_modules-nspkg">>

ModOrder == [i \in 1..NumMod |-> "mod" \o ToString(i)]

ExtOrder == [i \in 1..NumExt |-> "ext" \o ToString(i)]

KeyOrder == CoreOrder \o ModOrder \o ExtOrder

Range(s) == {s[i] : i \in DOMAIN s}

\* the directory name of a core distribution, split into atoms
CoreDirName(name) ==
    CASE name = "azure-cli-nspkg" -> <<"azure", "-", "cli", "-", "nspkg">>
      [] name = "azure-cli-core" -> <<"azure", "-", "cli", "-", "core">>
      [] name = "azure-cli-command_modules-nspkg" ->
             <<"azure", "-", "cli", "-", "command_modules", "-", "nspkg">>

RepoTable ==
    [core |-> [n \in Range(CoreOrder) |->
                   <<"azure-cli", "/", "src", "/">> \o CoreDirName(n)],
     mod  |-> [n \in Range(ModOrder) |->
                   <<"azure-cli", "/", "src", "/", "command_modules", "/", n>>],
     ext  |-> [n \in Range(ExtOrder) |->
                   <<"azure-cli-extension", "s", "/", "src", "/", n>>]]

DictRestrict(d, keys) == [k \in (DOMAIN d) \cap keys |-> d[k]]

\* d.pop(key, None)
DictPop(d, key) == [k \in (DOMAIN d) \ {key} |-> d[k]]

\* list(d.keys()) and list(d.values())
DictKeys(d) == SelectSeq(KeyOrder, LAMBDA n : n \in DOMAIN d)

DictValues(d) == [i \in 1..Len(DictKeys(d)) |-> d[DictKeys(d)[i]]]

EmptyDict == DictRestrict(RepoTable.core, {})

\* get_path_table(include_only=modules): everything discovered, or only the
\* entries whose names are listed
GetPathTable(include_only) ==
    IF include_only = None THEN RepoTable
    ELSE [core |-> DictRestrict(RepoTable.core, Range(include_only.val)),
          mod  |-> DictRestrict(RepoTable.mod, Range(include_only.val)),
          ext  |-> DictRestrict(RepoTable.ext, Range(include_only.val))]

\* filter_by_git_diff(table, ...): some pruning of the table
FilterByGitDiffResults(table) ==
    {[core |-> DictRestrict(table.core, c),
      mod  |-> DictRestrict(table.mod, m),
      ext  |-> DictRestrict(table.ext, e)] :
        c \in SUBSET DOMAIN table.core,
        m \in SUBSET DOMAIN table.mod,
        e \in SUBSET DOMAIN table.ext}

\* glob(os.path.join(path, "azext_*")): the package directory of the
\* extension at path
EXTENSION_PREFIX == "azext_"

Glob(path) == <<OsPathJoin(path, <<EXTENSION_PREFIX, "pkg">>)>>

-----------------------------------------------------------------------------
(* The subprocess runner py_cmd.  The subprocess answers with its exit     *)
(* code and its captured output; py_cmd returns the output with exit code  *)
(* 0, or, when the exit code is not 0, a result that carries the error.    *)

Outputs == {<<101>>, <<102, 103>>}

Answers ==
    {[exit_code |-> 0, output |-> <<>>]}
    \cup {[exit_code |-> c, output |-> o] : c \in 1..MaxExitCode, o \in Outputs}

PyCmdResult(command, answer) ==
    IF answer.exit_code = 0
    THEN CommandResultItem(PyStr(Decode(answer.output)), 0, None)
    ELSE CommandResultItem(PyStr(Decode(answer.output)), answer.exit_code,
                           CalledProcessError(answer.exit_code, command,
                                              answer.output, NoAttr))

Slots == {"pylint", "flake8"} \X {"modules", "extensions"}

RunningMessage(tool, desc) == <<"Running ", tool, " on ", desc, "...">>

-----------------------------------------------------------------------------
(* run_pylint and _run_pep8: the paths and the commands *)

\* for x in str(tail).split("-"): p = os.path.join(p, x)
RECURSIVE JoinAll(_, _)
JoinAll(p, parts) ==
    IF parts = <<>> THEN p ELSE JoinAll(OsPathJoin(p, Head(parts)), Tail(parts))

CoreModulePath(p) == JoinAll(p, StrSplitOn(OsPathTail(p), "-"))

GetCoreModulePaths(modules) ==
    [i \in 1..Len(DictValues(modules.core)) |->
        CoreModulePath(DictValues(modules.core)[i])]

PylintCliPaths(modules) ==
    GetCoreModulePaths(modules) \o DictValues(modules.mod)

PylintExtPaths(modules) ==
    [i \in 1..Len(DictValues(modules.ext)) |->
        Glob(DictValues(modules.ext)[i])[1]]

Pep8CliPaths(modules) ==
    DictValues(modules.core) \o DictValues(modules.mod)

Pep8ExtPaths(modules) == DictValues(modules.ext)

\* checkers and enable are None or a list of names
PylintCommand(paths, rcfile, checkers, disable_all, enable) ==
    <<"pylint", " ">> \o StrJoin(<<" ">>, paths) \o <<" ", "--rcfile=">>
    \o rcfile \o <<" ", "--jobs", " ", ToString(CpuCount)>>
    \o (IF checkers # None
        THEN <<" ", "--load-plugins", " ">> \o StrJoin(<<",">>, checkers.val)
        ELSE <<>>)
    \o (IF disable_all THEN <<" ", "--disable=all">> ELSE <<>>)
    \o (IF enable # None
        THEN <<" ", "--enable", " ">> \o StrJoin(<<",">>, enable.val)
        ELSE <<>>)

Pep8Command(paths, rcfile) ==
    <<"flake8", " ", "--statistics", " ", "--append-config=">> \o rcfile
    \o <<" ">> \o StrJoin(<<" ">>, paths)

-----------------------------------------------------------------------------
(* check_style, step by step.  Each step is a function of the frame and of *)
(* what the collaborator it calls answers.                                 *)

CLIError(message) == [tag |-> "CLIError", message |-> message]

Display(f, text) == [f EXCEPT !.displayed = Append(@, text)]

LogError(f, text) ==
    [f EXCEPT !.logged = Append(@, [level |-> "error", text |-> text])]

LogDebug(f, text) ==
    [f EXCEPT !.logged = Append(@, [level |-> "debug", text |-> text])]

InitFrame(a) ==
    [pc |-> "start",
     modules |-> a.modules, pylint |-> a.pylint, pep8 |-> a.pep8,
     cli_only |-> FALSE, ext_only |-> FALSE,
     selected_modules |-> None, mod_names |-> None, ext_names |-> None,
     pylint_result |-> None, pep8_result |-> None, exit_code_sum |-> 0,
     cli_result |-> None, ext_result |-> None,
     raised |-> None, exit_status |-> None,
     displayed |-> <<>>, logged |-> <<>>, calls |-> <<>>,
     include_only |-> None, filter_arg |-> None, cli_required |-> FALSE]

Terminal == {"raised", "exited"}

Raise(f, error) == [f EXCEPT !.raised = error, !.pc = "raised"]

\* lines 26-41: the sentinels, discovery, the two non-modules removed
Discover(f) ==
    LET cli_only == f.modules = PyList(<<"CLI">>)
        ext_only == f.modules = PyList(<<"EXT">>)
        modules == IF cli_only \/ ext_only THEN None ELSE f.modules
        table == GetPathTable(modules)
        core == DictPop(DictPop(table.core, "azure-cli-nspkg"),
                        "azure-cli-command_modules-nspkg")
    IN  [Display(f, <<"Style Check">>) EXCEPT
            !.cli_only = cli_only, !.ext_only = ext_only,
            !.modules = modules, !.include_only = modules,
            !.selected_modules = [table EXCEPT !.core = core],
            !.pep8_result = None, !.pylint_result = None,
            !.pc = "preflight"]

\* lines 43-47: require_azure_cli() when --pylint was given
Preflight(f, installed) ==
    IF ~f.pylint THEN [f EXCEPT !.pc = "filter"]
    ELSE IF installed
         THEN [f EXCEPT !.cli_required = TRUE, !.pc = "filter"]
         ELSE Raise(f, CLIError(
                  "usage error: --pylint requires Azure CLI to be installed."))

\* a variant of ClearPartitions with the two sentinels exchanged
ClearPartitionsSwapped(f) ==
    LET t1 == IF f.ext_only
              THEN [f.selected_modules EXCEPT !.ext = EmptyDict]
              ELSE f.selected_modules
        t2 == IF f.cli_only
              THEN [t1 EXCEPT !.mod = EmptyDict, !.core = EmptyDict]
              ELSE t1
    IN  [f EXCEPT !.selected_modules = t2,
                  !.ext_names = IF f.cli_only THEN None ELSE @,
                  !.mod_names = IF f.ext_only THEN None ELSE @]

\* lines 49-55: the partitions the sentinel excludes are cleared
ClearPartitions(f) ==
    LET t1 == IF f.cli_only
              THEN [f.selected_modules EXCEPT !.ext = EmptyDict]
              ELSE f.selected_modules
        t2 == IF f.ext_only
              THEN [t1 EXCEPT !.mod = EmptyDict, !.core = EmptyDict]
              ELSE t1
    IN  [f EXCEPT !.selected_modules = t2,
                  !.ext_names = IF f.cli_only THEN None ELSE @,
                  !.mod_names = IF f.ext_only THEN None ELSE @]

\* lines 49-58: the table is handed to filter_by_git_diff, which answers
\* filtered
FilterModules(f, filtered) ==
    LET g == ClearPartitions(f)
    IN  [g EXCEPT !.filter_arg = g.selected_modules,
                  !.selected_modules = filtered, !.pc = "select"]

\* a variant of AnySelected that tests the table's keys, any(selected_modules)
AnySelectedKeys(table) == DOMAIN table # {}

\* any((selected_modules[x] for x in selected_modules))
AnySelected(table) ==
    table.core # EmptyDict \/ table.mod # EmptyDict \/ table.ext # EmptyDict

\* lines 71-74
DefaultFlags(f) ==
    IF ~(f.pylint \/ f.pep8) THEN [f EXCEPT !.pep8 = TRUE, !.pylint = TRUE]
    ELSE f

\* lines 60-78: nothing selected is an error; the names are displayed, the
\* flags defaulted
Select(f) ==
    IF ~AnySelected(f.selected_modules)
    THEN Raise(f, CLIError("No modules selected."))
    ELSE
      LET mod_names == DictKeys(f.selected_modules.mod)
                       \o DictKeys(f.selected_modules.core)
          ext_names == DictKeys(f.selected_modules.ext)
          f1 == [f EXCEPT !.mod_names = PyList(mod_names),
                          !.ext_names = PyList(ext_names)]
          f2 == IF mod_names # <<>>
                THEN Display(f1, <<"Modules: ">>
                                 \o StrJoin(<<", ">>, [i \in DOMAIN mod_names |-> <<mod_names[i]>>])
                                 \o <<"\n">>)
                ELSE f1
          f3 == IF ext_names # <<>>
                THEN Display(f2, <<"Extensions: ">>
                                 \o StrJoin(<<", ">>, [i \in DOMAIN ext_names |-> <<ext_names[i]>>])
                                 \o <<"\n">>)
                ELSE f2
          f4 == DefaultFlags(f3)
      IN  [f4 EXCEPT !.exit_code_sum = 0,
                     !.pc = IF f4.pylint THEN "pylint_cli"
                            ELSE IF f4.pep8 THEN "pep8_cli" ELSE "exit"]

\* py_cmd(command, message=...): the subprocess is run and answers out
PyCmd(f, command, message, out) ==
    [frame |-> [f EXCEPT !.calls = Append(@, [command |-> command,
                                               message |-> message])],
     result |-> PyCmdResult(command, out)]

\* run_pylint's run(paths, rcfile, desc, ...), lines 146-161
PylintRun(f, paths, rcfile, desc, out) ==
    IF paths = <<>> THEN [frame |-> f, result |-> None]
    ELSE PyCmd(LogDebug(LogDebug(f, <<"Using rcfile file: ">> \o rcfile),
                        <<"Running on ", desc, ": ">> \o StrJoin(<<"\n">>, paths)),
               PylintCommand(paths, rcfile, None, FALSE, None),
               RunningMessage("pylint", desc), out)

\* _run_pep8's run(paths, rcfile, desc), lines 177-185
Pep8Run(f, paths, rcfile, desc, out) ==
    IF paths = <<>> THEN [frame |-> f, result |-> None]
    ELSE PyCmd(LogDebug(LogDebug(f, <<"Using config file: ">> \o rcfile),
                        <<"Running on ", desc, ":\n">> \o StrJoin(<<"\n">>, paths)),
               Pep8Command(paths, rcfile),
               RunningMessage("flake8", desc), out)

\* lines 129-166: run_pylint up to the run on the modules
PylintCli(f, config, out) ==
    LET r == PylintRun(f, PylintCliPaths(f.selected_modules),
                       ConfigFilePath("pylint", config).cli, "modules", out)
    IN  [r.frame EXCEPT !.cli_result = r.result, !.pc = "pylint_ext"]

\* lines 167-168: the run on the extensions
PylintExt(f, config, out) ==
    LET r == PylintRun(f, PylintExtPaths(f.selected_modules),
                       ConfigFilePath("pylint", config).ext, "extensions", out)
    IN  [r.frame EXCEPT !.ext_result = r.result, !.pc = "pylint_report"]

\* lines 82-87
PylintStatus(f) ==
    IF Truthy(f.pylint_result.error)
    THEN LogError(LogError(Display(f, <<"Pylint: PASSED">>),
                           Decode(f.pylint_result.error.output)),
                  <<"Pylint: FAILED\n">>)
    ELSE Display(f, <<"Pylint: PASSED\n">>)

\* a variant of PylintReport that skips flake8 once pylint has failed
PylintReportAbortOnError(f) ==
    LET r == CombineCommandResult(f.cli_result, f.ext_result)
        f1 == [f EXCEPT !.pylint_result = r,
                        !.exit_code_sum = @ + r.exit_code]
        f2 == PylintStatus(f1)
    IN  [f2 EXCEPT !.pc = IF f2.pep8 /\ ~Truthy(r.error) THEN "pep8_cli"
                          ELSE "exit"]

\* lines 169 and 79-89: the two results combined, the exit code added, the
\* status reported
PylintReport(f) ==
    LET r == CombineCommandResult(f.cli_result, f.ext_result)
        f1 == [f EXCEPT !.pylint_result = r,
                        !.exit_code_sum = @ + r.exit_code]
        f2 == PylintStatus(f1)
    IN  [f2 EXCEPT !.pc = IF f2.pep8 THEN "pep8_cli" ELSE "exit"]

\* lines 172-189: _run_pep8 up to the run on the modules
Pep8Cli(f, config, out) ==
    LET r == Pep8Run(f, Pep8CliPaths(f.selected_modules),
                     ConfigFilePath("flake8", config).cli, "modules", out)
    IN  [r.frame EXCEPT !.cli_result = r.result, !.pc = "pep8_ext"]

\* line 190: the run on the extensions
Pep8Ext(f, config, out) ==
    LET r == Pep8Run(f, Pep8ExtPaths(f.selected_modules),
                     ConfigFilePath("flake8", config).ext, "extensions", out)
    IN  [r.frame EXCEPT !.ext_result = r.result, !.pc = "pep8_report"]

\* lines 93-97
Pep8Status(f) ==
    IF Truthy(f.pep8_result.error)
    THEN LogError(LogError(f, Decode(f.pep8_result.error.output)),
                  <<"Flake8: FAILED\n">>)
    ELSE Display(f, <<"Flake8: PASSED\n">>)

\* lines 191 and 90-97
Pep8Report(f) ==
    LET r == CombineCommandResult(f.cli_result, f.ext_result)
        f1 == [f EXCEPT !.pep8_result = r,
                        !.exit_code_sum = @ + r.exit_code]
    IN  [Pep8Status(f1) EXCEPT !.pc = "exit"]

\* line 99
SysExit(f) == [f EXCEPT !.exit_status = f.exit_code_sum, !.pc = "exited"]

-----------------------------------------------------------------------------
(* One invocation of check_style *)

ModuleArgs ==
    {None} \cup {PyList(<<n>>) : n \in {"CLI", "EXT"} \cup Range(KeyOrder)}

\* the settings store: nothing configured, or both repositories configured
MainConfigs ==
    {[cli_repo_path |-> <<>>, ext_repo_paths |-> <<>>],
     [cli_repo_path |-> <<"azure-cli">>,
      ext_repo_paths |-> <<"azure-cli-extension", "s">>]}

IdleFrame == [pc |-> "idle"]
IdleArgs == [modules |-> None, pylint |-> FALSE, pep8 |-> FALSE]
IdleEnv == [installed |-> FALSE]
IdleCmb == [pc |-> "idle"]
IdleCfg == [pc |-> "idle"]

Init ==
    /\ args \in [modules : ModuleArgs, pylint : BOOLEAN, pep8 : BOOLEAN]
    /\ env \in [installed : BOOLEAN, config : MainConfigs,
                filtered : {None}, outcomes : {[s \in Slots |-> None]}]
    /\ frame = InitFrame(args)
    /\ cmb = IdleCmb
    /\ cfg = IdleCfg

DiscoverStep ==
    /\ frame.pc = "start"
    /\ frame' = Discover(frame)
    /\ UNCHANGED <<args, env, cmb, cfg>>

PreflightStep ==
    /\ frame.pc = "preflight"
    /\ frame' = Preflight(frame, env.installed)
    /\ UNCHANGED <<args, env, cmb, cfg>>

FilterStep ==
    /\ frame.pc = "filter"
    /\ \E t \in FilterByGitDiffResults(ClearPartitions(frame).selected_modules) :
          /\ frame' = FilterModules(frame, t)
          /\ env' = [env EXCEPT !.filtered = t]
    /\ UNCHANGED <<args, cmb, cfg>>

SelectStep ==
    /\ frame.pc = "select"
    /\ frame' = Select(frame)
    /\ UNCHANGED <<args, env, cmb, cfg>>

PylintCliStep ==
    /\ frame.pc = "pylint_cli"
    /\ \/ /\ PylintCliPaths(frame.selected_modules) = <<>>
          /\ frame' = PylintCli(frame, env.config, None)
          /\ UNCHANGED env
       \/ /\ PylintCliPaths(frame.selected_modules) # <<>>
          /\ \E out \in Answers :
                /\ frame' = PylintCli(frame, env.config, out)
                /\ env' = [env EXCEPT !.outcomes[<<"pylint", "modules">>] = out]
    /\ UNCHANGED <<args, cmb, cfg>>

PylintExtStep ==
    /\ frame.pc = "pylint_ext"
    /\ \/ /\ PylintExtPaths(frame.selected_modules) = <<>>
          /\ frame' = PylintExt(frame, env.config, None)
          /\ UNCHANGED env
       \/ /\ PylintExtPaths(frame.selected_modules) # <<>>
          /\ \E out \in Answers :
                /\ frame' = PylintExt(frame, env.config, out)
                /\ env' = [env EXCEPT !.outcomes[<<"pylint", "extensions">>] = out]
    /\ UNCHANGED <<args, cmb, cfg>>

PylintReportStep ==
    /\ frame.pc = "pylint_report"
    /\ frame' = PylintReport(frame)
    /\ UNCHANGED <<args, env, cmb, cfg>>

Pep8CliStep ==
    /\ frame.pc = "pep8_cli"
    /\ \/ /\ Pep8CliPaths(frame.selected_modules) = <<>>
          /\ frame' = Pep8Cli(frame, env.config, None)
          /\ UNCHANGED env
       \/ /\ Pep8CliPaths(frame.selected_modules) # <<>>
          /\ \E out \in Answers :
                /\ frame' = Pep8Cli(frame, env.config, out)
                /\ env' = [env EXCEPT !.outcomes[<<"flake8", "modules">>] = out]
    /\ UNCHANGED <<args, cmb, cfg>>

Pep8ExtStep ==
    /\ frame.pc = "pep8_ext"
    /\ \/ /\ Pep8ExtPaths(frame.selected_modules) = <<>>
          /\ frame' = Pep8Ext(frame, env.config, None)
          /\ UNCHANGED env
       \/ /\ Pep8ExtPaths(frame.selected_modules) # <<>>
          /\ \E out \in Answers :
                /\ frame' = Pep8Ext(frame, env.config, out)
                /\ env' = [env EXCEPT !.outcomes[<<"flake8", "extensions">>] = out]
    /\ UNCHANGED <<args, cmb, cfg>>

Pep8ReportStep ==
    /\ frame.pc = "pep8_report"
    /\ frame' = Pep8Report(frame)
    /\ UNCHANGED <<args, env, cmb, cfg>>

SysExitStep ==
    /\ frame.pc = "exit"
    /\ frame' = SysExit(frame)
    /\ UNCHANGED <<args, env, cmb, cfg>>

Next ==
    \/ DiscoverStep
    \/ PreflightStep
    \/ FilterStep
    \/ SelectStep
    \/ PylintCliStep
    \/ PylintExtStep
    \/ PylintReportStep
    \/ Pep8CliStep
    \/ Pep8ExtStep
    \/ Pep8ReportStep
    \/ SysExitStep

Spec == Init /\ [][Next]_vars

\* check_style as a function of its arguments and of what the collaborators
\* answer: the steps in order, each collaborator answering as e records
StepWith(f, e) ==
    CASE f.pc = "start" -> Discover(f)
      [] f.pc = "preflight" -> Preflight(f, e.installed)
      [] f.pc = "filter" -> FilterModules(f, e.filtered)
      [] f.pc = "select" -> Select(f)
      [] f.pc = "pylint_cli" ->
             PylintCli(f, e.config, e.outcomes[<<"pylint", "modules">>])
      [] f.pc = "pylint_ext" ->
             PylintExt(f, e.config, e.outcomes[<<"pylint", "extensions">>])
      [] f.pc = "pylint_report" -> PylintReport(f)
      [] f.pc = "pep8_cli" ->
             Pep8Cli(f, e.config, e.outcomes[<<"flake8", "modules">>])
      [] f.pc = "pep8_ext" ->
             Pep8Ext(f, e.config, e.outcomes[<<"flake8", "extensions">>])
      [] f.pc = "pep8_report" -> Pep8Report(f)
      [] f.pc = "exit" -> SysExit(f)

RECURSIVE RunToEnd(_, _)
RunToEnd(f, e) == IF f.pc \in Terminal THEN f ELSE RunToEnd(StepWith(f, e), e)

CheckStyle(a, e) == RunToEnd(InitFrame(a), e)

-----------------------------------------------------------------------------
(* One call of _combine_command_result on any two results *)

MaxMessageLen == 1    \* an error's message is at most this many atoms long

Messages ==
    {NoAttr} \cup {PyStr(m) : m \in UNION {[1..n -> {"m1", "m2"}] : n \in 0..MaxMessageLen}}

CombineErrors ==
    {None} \cup {CalledProcessError(1, <<"cmd">>, o, m) : o \in Outputs, m \in Messages}

CombineInputs ==
    {None} \cup {CommandResultItem(r, c, e) :
                    r \in {None, PyStr(<<>>), PyStr(<<"r">>)},
                    c \in 0..MaxExitCode,
                    e \in CombineErrors}

InitCombine ==
    /\ args = IdleArgs
    /\ env = IdleEnv
    /\ frame = IdleFrame
    /\ cfg = IdleCfg
    /\ cmb \in [pc : {"called"}, cli_result : CombineInputs,
                ext_result : CombineInputs, final : {None}]

CombineStep ==
    /\ cmb.pc = "called"
    /\ cmb' = [cmb EXCEPT
                  !.final = CombineCommandResult(cmb.cli_result, cmb.ext_result),
                  !.pc = "returned"]
    /\ UNCHANGED <<args, env, frame, cfg>>

NextCombine == CombineStep

SpecCombine == InitCombine /\ [][NextCombine]_vars

-----------------------------------------------------------------------------
(* One call of _config_file_path on any identifier and settings *)

MaxRepoPathsLen == 3    \* ext.repo_paths is at most this many atoms long

StyleTypes == {"pylint", "flake8", "mypy"}

CliRepoPaths == {<<>>, <<"azure-cli">>, <<"/", "repos", "/">>}

RepoPathAtoms == {" ", "azure-cli-extension", "x"}

ExtRepoPaths == UNION {[1..n -> RepoPathAtoms] : n \in 0..MaxRepoPathsLen}

InitConfig ==
    /\ args = IdleArgs
    /\ env = IdleEnv
    /\ frame = IdleFrame
    /\ cmb = IdleCmb
    /\ cfg \in [pc : {"called"}, style_type : StyleTypes,
                config : [cli_repo_path : CliRepoPaths,
                          ext_repo_paths : ExtRepoPaths],
                result : {None}]

ConfigStep ==
    /\ cfg.pc = "called"
    /\ cfg' = [cfg EXCEPT !.result = ConfigFilePath(cfg.style_type, cfg.config),
                          !.pc = "returned"]
    /\ UNCHANGED <<args, env, frame, cmb>>

NextConfig == ConfigStep

SpecConfig == InitConfig /\ [][NextConfig]_vars

-----------------------------------------------------------------------------
(* Properties *)

FilterCalled == env.filtered # None

NothingSelected ==
    /\ FilterCalled
    /\ DOMAIN env.filtered.core = {}
    /\ DOMAIN env.filtered.mod = {}
    /\ DOMAIN env.filtered.ext = {}

\* C1: when the three partitions are empty after filter_by_git_diff, the
\* operation ends with the usage error 'No modules selected.' and no
\* subprocess is ever invoked.
C1_NoModulesSelected ==
    NothingSelected =>
        /\ frame.pc \in {"select", "raised"}
        /\ frame.calls = <<>>
        /\ frame.exit_status = None
        /\ frame.pc = "raised" => frame.raised = CLIError("No modules selected.")
        /\ frame.pc = "select" => ENABLED SelectStep

C1_Witness ==
    /\ NothingSelected
    /\ frame.pc = "raised"
    /\ frame.raised = CLIError("No modules selected.")

\* the exit code of the subprocess of a slot, 0 when it was not run
ExitCodeOf(slot) ==
    IF env.outcomes[slot] = None THEN 0 ELSE env.outcomes[slot].exit_code

ExitCodeTotal ==
    ExitCodeOf(<<"pylint", "modules">>) + ExitCodeOf(<<"pylint", "extensions">>)
    + ExitCodeOf(<<"flake8", "modules">>) + ExitCodeOf(<<"flake8", "extensions">>)

SelectionSucceeded ==
    frame.pc \notin {"start", "preflight", "filter", "select", "raised"}

MessageText(e) ==
    IF e.message.tag = "NoAttr" THEN StrOfError(e) ELSE e.message.val

BothCarryError ==
    /\ cmb.pc = "returned"
    /\ cmb.cli_result # None
    /\ cmb.ext_result # None
    /\ cmb.cli_result.error # None
    /\ cmb.ext_result.error # None

\* C3: for two results that both carry an error, the combined error message
\* is the first result's error message followed by the second's, nothing
\* lost.
C3_ErrorMessagesConcatenated ==
    BothCarryError =>
        /\ cmb.final.error # None
        /\ cmb.final.error.message =
               PyStr(MessageText(cmb.cli_result.error)
                     \o MessageText(cmb.ext_result.error))

Observable(f) ==
    [raised |-> f.raised, messages |-> [i \in DOMAIN f.calls |-> f.calls[i].message],
     exited |-> f.pc = "exited"]

\* C4: a call with both flags omitted is equivalent to a call with both
\* flags set, in the same environment: the same error, or the same checks in
\* the same order and the same exit status.
C4_OmittedFlagsSameAsBoth ==
    (frame.pc \in Terminal /\ ~args.pylint /\ ~args.pep8) =>
        LET both == CheckStyle([args EXCEPT !.pylint = TRUE, !.pep8 = TRUE], env)
        IN  /\ Observable(both) = Observable(frame)
            /\ frame.pc = "exited" => both.exit_status = frame.exit_status

\* C5: whenever run_pylint is called, require_azure_cli has been performed
\* in that invocation and has succeeded.
C5_PreflightBeforePylint ==
    frame.pc \in {"pylint_cli", "pylint_ext", "pylint_report"} =>
        frame.cli_required /\ env.installed

Shown(text) == \E i \in DOMAIN frame.displayed : frame.displayed[i] = text

Logged(text) ==
    \E i \in DOMAIN frame.logged :
        frame.logged[i] = [level |-> "error", text |-> text]

PylintPassedShown == Shown(<<"Pylint: PASSED">>) \/ Shown(<<"Pylint: PASSED\n">>)

Flake8PassedShown == Shown(<<"Flake8: PASSED">>) \/ Shown(<<"Flake8: PASSED\n">>)

\* C6: for each tool that ran, a PASSED line is displayed exactly when the
\* tool's combined result carries no error; with an error a FAILED line is
\* logged and no PASSED line is displayed.
C6_PassedIffNoError ==
    frame.pc = "exited" =>
        /\ frame.pylint_result # None =>
              /\ PylintPassedShown <=> (frame.pylint_result.error = None)
              /\ frame.pylint_result.error # None => Logged(<<"Pylint: FAILED\n">>)
        /\ frame.pep8_result # None =>
              /\ Flake8PassedShown <=> (frame.pep8_result.error = None)
              /\ frame.pep8_result.error # None => Logged(<<"Flake8: FAILED\n">>)

\* the error log contains the text
ErrorLogContains(text) ==
    \E i \in DOMAIN frame.logged :
        /\ frame.logged[i].level = "error"
        /\ StrContains(text, frame.logged[i].text)

\* C7: the error text logged for a tool contains the captured output of
\* every failed subprocess of that tool.
C7_EveryFailedOutputLogged ==
    frame.pc = "exited" =>
        \A s \in Slots :
            (env.outcomes[s] # None /\ env.outcomes[s].exit_code # 0) =>
                ErrorLogContains(Decode(env.outcomes[s].output))

WithoutNspkg(d) == [k \in (DOMAIN d) \ NspkgNames |-> d[k]]

\* C8: with ['CLI'] the ext partition handed to the filter is empty and
\* core and mod are as discovered; with ['EXT'] core and mod are empty and
\* ext is as discovered; in both cases everything is discovered; otherwise
\* nothing is cleared.  The two non-modules are never handed to the filter.
C8_SentinelsClearPartitions ==
    frame.filter_arg # None =>
        LET t == frame.filter_arg
        IN  /\ NspkgNames \cap DOMAIN t.core = {}
            /\ args.modules = PyList(<<"CLI">>) =>
                  /\ frame.include_only = None
                  /\ DOMAIN t.ext = {}
                  /\ t.core = WithoutNspkg(RepoTable.core)
                  /\ t.mod = RepoTable.mod
            /\ args.modules = PyList(<<"EXT">>) =>
                  /\ frame.include_only = None
                  /\ DOMAIN t.core = {}
                  /\ DOMAIN t.mod = {}
                  /\ t.ext = RepoTable.ext
            /\ args.modules \notin {PyList(<<"CLI">>), PyList(<<"EXT">>)} =>
                  /\ frame.include_only = args.modules
                  /\ t.core = WithoutNspkg(GetPathTable(args.modules).core)
                  /\ t.mod = GetPathTable(args.modules).mod
                  /\ t.ext = GetPathTable(args.modules).ext

C8_Witness ==
    /\ frame.filter_arg # None
    /\ args.modules = PyList(<<"CLI">>)
    /\ DOMAIN frame.filter_arg.core # {}
    /\ DOMAIN frame.filter_arg.mod # {}
    /\ DOMAIN frame.filter_arg.ext = {}

ConfigName == IF cfg.style_type = "pylint" THEN <<"pylintrc">> ELSE <<".flake8">>

DefaultCliConfig ==
    <<"~", "/", ".azdev", "/", "config_files", "/",
      IF cfg.style_type = "pylint" THEN "cli_pylintrc" ELSE "cli.flake8">>

DefaultExtConfig ==
    <<"~", "/", ".azdev", "/", "config_files", "/",
      IF cfg.style_type = "pylint" THEN "ext_pylintrc" ELSE "ext.flake8">>

ExtEntries == StrSplit(cfg.config.ext_repo_paths)

ExtMatches ==
    {i \in DOMAIN ExtEntries : "azure-cli-extension" \in Range(ExtEntries[i])}

FirstExtMatch == CHOOSE i \in ExtMatches : \A j \in ExtMatches : i <= j

\* C9: _config_file_path resolves the two paths independently, each from
\* its configured repository when there is one and from the bundled default
\* otherwise; any identifier but 'pylint' and 'flake8' raises a value error.
C9_ConfigFilePath ==
    cfg.pc = "returned" =>
        IF cfg.style_type \notin {"pylint", "flake8"}
        THEN cfg.result = [tag |-> "ValueError"]
        ELSE /\ cfg.result.tag = "tuple"
             /\ cfg.result.cli =
                    IF cfg.config.cli_repo_path # <<>>
                    THEN OsPathJoin(cfg.config.cli_repo_path, ConfigName)
                    ELSE DefaultCliConfig
             /\ cfg.result.ext =
                    IF ExtMatches # {}
                    THEN OsPathJoin(ExtEntries[FirstExtMatch], ConfigName)
                    ELSE DefaultExtConfig

C9_Witness ==
    /\ cfg.pc = "returned"
    /\ cfg.style_type = "flake8"
    /\ cfg.config.cli_repo_path = <<>>
    /\ Cardinality(ExtMatches) = 2
    /\ cfg.result.tag = "tuple"
    /\ cfg.result.cli = DefaultCliConfig
    /\ cfg.result.ext = OsPathJoin(ExtEntries[FirstExtMatch], <<".flake8">>)

PylintEnabled == args.pylint \/ ~args.pep8

Flake8Enabled == args.pep8 \/ ~args.pylint

ModulesSelected ==
    (DOMAIN env.filtered.core) \cup (DOMAIN env.filtered.mod) # {}

ExtensionsSelected == DOMAIN env.filtered.ext # {}

\* the subprocesses to invoke, in order
ExpectedMessages ==
    (IF PylintEnabled /\ ModulesSelected
     THEN <<RunningMessage("pylint", "modules")>> ELSE <<>>)
    \o (IF PylintEnabled /\ ExtensionsSelected
        THEN <<RunningMessage("pylint", "extensions")>> ELSE <<>>)
    \o (IF Flake8Enabled /\ ModulesSelected
        THEN <<RunningMessage("flake8", "modules")>> ELSE <<>>)
    \o (IF Flake8Enabled /\ ExtensionsSelected
        THEN <<RunningMessage("flake8", "extensions")>> ELSE <<>>)

InvokedMessages == [i \in DOMAIN frame.calls |-> frame.calls[i].message]

IsPrefix(a, b) == Len(a) <= Len(b) /\ SubSeq(b, 1, Len(a)) = a

=============================================================================
